---- MODULE Spec2Model ----
(***************************************************************************)
(* A model of the static linker in src/src/Linker.cpp: link_objects and    *)
(* the four passes it runs (load_object_file, layout_and_define_symbols,   *)
(* apply_relocations, write_output), over the object format of             *)
(* src/inc/ObjectFormat.h.                                                 *)
(*                                                                         *)
(* uint32_t values are kept at their width: a word is a pair of 16-bit     *)
(* halves [hi, lo], and every arithmetic operator wraps modulo 2^32.       *)
(* Section sizes and element counts are small naturals.                    *)
(***************************************************************************)
EXTENDS Integers, Sequences, FiniteSets, TLC

----------------------------------------------------------------------------
(* Bounds of the model. *)

\* The longest list of input files.
MaxFiles == 3

\* The longest relocation table of a module of the patching inputs.
MaxRelocs == 2

\* A cap on the counter of resolution-loop iterations (never reached by the
\* loop itself: see C10).
MaxIter == 12

----------------------------------------------------------------------------
(* ObjectFormat.h *)

LINKER_MAGIC == 1280199473

SECTION_TEXT == 0
SECTION_DATA == 1

SYMBOL_UNDEFINED == 0
SYMBOL_DEFINED == 1

RELOC_ABSOLUTE == 0
RELOC_RELATIVE == 1

\* The entry symbol the resolution is seeded with.
ENTRY_SYMBOL == "__START__"

----------------------------------------------------------------------------
(* uint32_t *)

Half == 2^16

\* The uint32_t whose value is the small natural n.
W(n) == [hi |-> (n \div Half) % Half, lo |-> n % Half]

\* The natural a small word stands for (hi < 2^15 only).
ValueOf(w) == w.hi * Half + w.lo

\* uint32_t addition: wraps modulo 2^32.
Add32(a, b) ==
    LET lo == a.lo + b.lo
        hi == a.hi + b.hi + (lo \div Half)
    IN  [hi |-> hi % Half, lo |-> lo % Half]

\* uint32_t subtraction: wraps modulo 2^32.
Sub32(a, b) ==
    LET lo == a.lo - b.lo
        borrow == IF lo < 0 THEN 1 ELSE 0
        hi == a.hi - b.hi - borrow
    IN  [hi |-> (hi + Half) % Half, lo |-> (lo + Half) % Half]

RECURSIVE BitAnd(_, _)
BitAnd(a, b) ==
    IF a = 0 \/ b = 0 THEN 0
    ELSE (a % 2) * (b % 2) + 2 * BitAnd(a \div 2, b \div 2)

RECURSIVE BitOr(_, _)
BitOr(a, b) ==
    IF a = 0 THEN b
    ELSE IF b = 0 THEN a
    ELSE (IF a % 2 = 1 \/ b % 2 = 1 THEN 1 ELSE 0) + 2 * BitOr(a \div 2, b \div 2)

And32(a, b) == [hi |-> BitAnd(a.hi, b.hi), lo |-> BitAnd(a.lo, b.lo)]
Or32(a, b) == [hi |-> BitOr(a.hi, b.hi), lo |-> BitOr(a.lo, b.lo)]

\* 0xFC000000 and 0x03FFFFFF
MASK_OPCODE == [hi |-> 64512, lo |-> 0]
MASK_OFFSET == [hi |-> 1023, lo |-> 65535]

\* The four bytes of a word in memory, and back (little-endian host).
WordToBytes(w) == << w.lo % 256, w.lo \div 256, w.hi % 256, w.hi \div 256 >>
BytesToWord(b) == [hi |-> b[3] + 256 * b[4], lo |-> b[1] + 256 * b[2]]

\* *reinterpret_cast<uint32_t*>(&text[off]) read and written, off in bytes.
ReadWord(text, off) == BytesToWord(SubSeq(text, off + 1, off + 4))
WriteWord(text, off, w) ==
    [i \in 1..Len(text) |->
        IF off < i /\ i <= off + 4 THEN WordToBytes(w)[i - off] ELSE text[i]]

----------------------------------------------------------------------------
(* Records of the object format, and input files. *)

SymbolEntry(name, type, section, offset) ==
    [name |-> name, type |-> type, section |-> section, offset |-> offset]

RelocEntry(offset, symbol_name, type) ==
    [offset |-> offset, symbol_name |-> symbol_name, type |-> type]

\* What resize() value-initializes a record to.
ZeroSymbol == SymbolEntry("", 0, 0, W(0))
ZeroReloc == RelocEntry(W(0), "", 0)

RECURSIVE Repeat(_, _)
Repeat(x, n) == IF n = 0 THEN << >> ELSE << x >> \o Repeat(x, n - 1)

\* An input file: whether it can be opened, its header, and the records
\* that follow the header in the file.  A file that ends early holds fewer
\* records than its header counts.
ObjectFile(text, data, symbols, relocs) ==
    [openable |-> TRUE,
     magic |-> LINKER_MAGIC,
     text_size |-> Len(text),
     data_size |-> Len(data),
     symtable_count |-> Len(symbols),
     reloc_count |-> Len(relocs),
     text |-> text, data |-> data, symbols |-> symbols, relocs |-> relocs]

\* The file f cut short inside section sect, of which keep elements remain.
Truncate(f, sect, keep) ==
    CASE sect = "text" ->
           [f EXCEPT !.text = SubSeq(f.text, 1, keep), !.data = << >>,
                     !.symbols = << >>, !.relocs = << >>]
      [] sect = "data" ->
           [f EXCEPT !.data = SubSeq(f.data, 1, keep),
                     !.symbols = << >>, !.relocs = << >>]
      [] sect = "symbols" ->
           [f EXCEPT !.symbols = SubSeq(f.symbols, 1, keep), !.relocs = << >>]
      [] sect = "relocs" ->
           [f EXCEPT !.relocs = SubSeq(f.relocs, 1, keep)]

\* The file ends before the records its header announces.
IsTruncated(f) ==
    \/ Len(f.text) < f.text_size
    \/ Len(f.data) < f.data_size
    \/ Len(f.symbols) < f.symtable_count
    \/ Len(f.relocs) < f.reloc_count

----------------------------------------------------------------------------
(* load_object_file *)

\* One file.read of count elements into a vector resize()d to count: the
\* elements the stream still holds are stored, the rest stay zero; a short
\* read sets the stream's failbit, and a failed stream reads nothing.
ReadSection(good, content, count, zero) ==
    LET got == IF Len(content) <= count THEN content ELSE SubSeq(content, 1, count)
    IN  [items |-> IF good
                   THEN got \o Repeat(zero, count - Len(got))
                   ELSE Repeat(zero, count),
         good |-> good /\ Len(got) = count]

\* No read is checked after the magic: the function returns true whatever the
\* stream's state.
load_object_file(path, f) ==
    IF ~f.openable THEN
        [ok |-> FALSE, error |-> "FileOpenError"]
    ELSE IF f.magic # LINKER_MAGIC THEN
        [ok |-> FALSE, error |-> "InvalidFormat"]
    ELSE
        LET text == ReadSection(TRUE, f.text, f.text_size, 0)
            data == ReadSection(text.good, f.data, f.data_size, 0)
            syms == ReadSection(data.good, f.symbols, f.symtable_count, ZeroSymbol)
            rels == ReadSection(syms.good, f.relocs, f.reloc_count, ZeroReloc)
        IN  [ok |-> TRUE, error |-> "None",
             obj |-> [filename |-> path,
                      header |-> [magic |-> f.magic,
                                  text_size |-> f.text_size,
                                  data_size |-> f.data_size,
                                  symtable_count |-> f.symtable_count,
                                  reloc_count |-> f.reloc_count],
                      text_section |-> text.items,
                      data_section |-> data.items,
                      symbols |-> syms.items,
                      relocs |-> rels.items,
                      text_base_addr |-> W(0),
                      data_base_addr |-> W(0)]]

----------------------------------------------------------------------------
(* layout_and_define_symbols: the dependency resolution loop *)

\* ProvidesNeeded without the test of sym.type.
ProvidesNeededAnyType(obj, needed) ==
    \E k \in 1..Len(obj.symbols) : obj.symbols[k].name \in needed

\* The object has a SYMBOL_DEFINED entry whose name is needed.
ProvidesNeeded(obj, needed) ==
    \E k \in 1..Len(obj.symbols) :
        /\ obj.symbols[k].type = SYMBOL_DEFINED
        /\ obj.symbols[k].name \in needed

\* Pass 1: object_active after the pass.
ActivatePass(objs, needed, active) ==
    [i \in 1..Len(objs) |-> active[i] \/ ProvidesNeeded(objs[i], needed)]

\* Pass 1 sets changed when it activates an object.
ActivateChanged(objs, needed, active) ==
    \E i \in 1..Len(objs) : ~active[i] /\ ProvidesNeeded(objs[i], needed)

RelocNames(obj) == {obj.relocs[k].symbol_name : k \in 1..Len(obj.relocs)}

\* Pass 2: needed_symbols after the pass.
DemandPass(objs, needed, active) ==
    needed \cup UNION {RelocNames(objs[i]) : i \in {j \in 1..Len(objs) : active[j]}}

\* DemandChanged without the test that the name is new.
DemandChangedOnAnyReloc(objs, needed, active) ==
    \E i \in 1..Len(objs) : active[i] /\ Len(objs[i].relocs) > 0

\* Pass 2 sets changed when it inserts a name.
DemandChanged(objs, needed, active) ==
    \E i \in 1..Len(objs) :
        active[i] /\ \E k \in 1..Len(objs[i].relocs) :
                        objs[i].relocs[k].symbol_name \notin needed

----------------------------------------------------------------------------
(* layout_and_define_symbols: filter, layout and symbol definition *)

\* The active objects, in their order.
RECURSIVE FilterActive(_, _, _)
FilterActive(objs, active, i) ==
    IF i > Len(objs) THEN << >>
    ELSE (IF active[i] THEN << objs[i] >> ELSE << >>)
         \o FilterActive(objs, active, i + 1)

\* total_text_size and total_data_size over the first n objects.
RECURSIVE TotalTextSize(_, _)
TotalTextSize(objs, n) ==
    IF n = 0 THEN W(0)
    ELSE Add32(TotalTextSize(objs, n - 1), W(objs[n].header.text_size))

RECURSIVE TotalDataSize(_, _)
TotalDataSize(objs, n) ==
    IF n = 0 THEN W(0)
    ELSE Add32(TotalDataSize(objs, n - 1), W(objs[n].header.data_size))

\* current_text_addr and current_data_addr when the layout loop reaches
\* object i.
TextBaseAddr(objs, i) == TotalTextSize(objs, i - 1)

\* DataBaseAddr with current_data_addr started at 0.
DataBaseAddrFromZero(objs, i) == TotalDataSize(objs, i - 1)

DataBaseAddr(objs, i) ==
    Add32(TotalTextSize(objs, Len(objs)), TotalDataSize(objs, i - 1))

AssignBases(objs) ==
    [i \in 1..Len(objs) |->
        [objs[i] EXCEPT !.text_base_addr = TextBaseAddr(objs, i),
                        !.data_base_addr = DataBaseAddr(objs, i)]]

FinalAddr(obj, sym) ==
    IF sym.section = SECTION_TEXT THEN Add32(obj.text_base_addr, sym.offset)
    ELSE IF sym.section = SECTION_DATA THEN Add32(obj.data_base_addr, sym.offset)
    ELSE W(0)

EmptyTable == [n \in {} |-> W(0)]

\* DefineSymbols without the duplicate check: the last definition wins.
RECURSIVE DefineSymbolsLastWins(_, _, _, _, _)
DefineSymbolsLastWins(objs, needed, i, k, table) ==
    IF i > Len(objs) THEN
        [ok |-> TRUE, table |-> table, symbol |-> ""]
    ELSE IF k > Len(objs[i].symbols) THEN
        DefineSymbolsLastWins(objs, needed, i + 1, 1, table)
    ELSE
        LET sym == objs[i].symbols[k] IN
        IF sym.type = SYMBOL_DEFINED /\ sym.name \in needed THEN
            DefineSymbolsLastWins(objs, needed, i, k + 1,
                                  (sym.name :> FinalAddr(objs[i], sym)) @@ table)
        ELSE
            DefineSymbolsLastWins(objs, needed, i, k + 1, table)

\* The symbol-definition loop from symbol k of object i on: the table it
\* builds, or the duplicate it stops at.
RECURSIVE DefineSymbols(_, _, _, _, _)
DefineSymbols(objs, needed, i, k, table) ==
    IF i > Len(objs) THEN
        [ok |-> TRUE, table |-> table, symbol |-> ""]
    ELSE IF k > Len(objs[i].symbols) THEN
        DefineSymbols(objs, needed, i + 1, 1, table)
    ELSE
        LET sym == objs[i].symbols[k] IN
        IF sym.type = SYMBOL_DEFINED /\ sym.name \in needed THEN
            IF sym.name \in DOMAIN table THEN
                [ok |-> FALSE, table |-> table, symbol |-> sym.name]
            ELSE
                DefineSymbols(objs, needed, i, k + 1,
                              (sym.name :> FinalAddr(objs[i], sym)) @@ table)
        ELSE
            DefineSymbols(objs, needed, i, k + 1, table)

\* The order of std::set<std::string> over the names of the model.
NameRank(n) ==
    CASE n = "" -> 0
      [] n = "__START__" -> 1
      [] n = "f" -> 2
      [] n = "g" -> 3

FirstName(S) == CHOOSE n \in S : \A m \in S : NameRank(n) <= NameRank(m)

\* MissingSymbols with the final check left out.
MissingSymbolsUnchecked(needed, table) == {}

\* The needed names the table lacks.
MissingSymbols(needed, table) == {n \in needed : n \notin DOMAIN table}

----------------------------------------------------------------------------
(* apply_relocations *)

\* patch_offset + 4 > obj.text_section.size(): the sum is a uint32_t.
BoundsCheckFails(patch_offset, size) ==
    LET sum == Add32(patch_offset, W(4))
    IN  sum.hi > 0 \/ sum.lo > size

\* The four bytes at patch_offset are bytes of the buffer.
SiteInside(patch_offset, size) ==
    patch_offset.hi = 0 /\ patch_offset.lo + 4 <= size

\* PatchValue with the opcode merge applied to every relocation type.
PatchValueAlwaysMerged(reloc, text_base_addr, target_addr, existing) ==
    LET instruction_addr == Add32(text_base_addr, reloc.offset)
        value_to_write ==
            IF reloc.type = RELOC_ABSOLUTE THEN target_addr
            ELSE Sub32(target_addr, instruction_addr)
    IN  Or32(And32(existing, MASK_OPCODE), And32(value_to_write, MASK_OFFSET))

\* PatchValue with the branch taken relative to the next instruction.
PatchValueFromNextInstruction(reloc, text_base_addr, target_addr, existing) ==
    LET instruction_addr == Add32(text_base_addr, reloc.offset)
        value_to_write ==
            IF reloc.type = RELOC_ABSOLUTE THEN target_addr
            ELSE Sub32(target_addr, Add32(instruction_addr, W(4)))
    IN  IF reloc.type = RELOC_RELATIVE
        THEN Or32(And32(existing, MASK_OPCODE), And32(value_to_write, MASK_OFFSET))
        ELSE value_to_write

\* The word stored at the site.
PatchValue(reloc, text_base_addr, target_addr, existing) ==
    LET instruction_addr == Add32(text_base_addr, reloc.offset)
        value_to_write ==
            IF reloc.type = RELOC_ABSOLUTE THEN target_addr
            ELSE IF reloc.type = RELOC_RELATIVE
                 THEN Sub32(target_addr, instruction_addr)
                 ELSE W(0)
    IN  IF reloc.type = RELOC_RELATIVE
        THEN Or32(And32(existing, MASK_OPCODE), And32(value_to_write, MASK_OFFSET))
        ELSE value_to_write

\* One turn of the inner loop: what happens to relocation reloc of obj.
\* A site that passes the check and is no part of the buffer is undefined
\* behaviour: the access is outside the vector.
ApplyOne(obj, reloc, table) ==
    IF reloc.symbol_name \notin DOMAIN table THEN
        [result |-> "undefined", text |-> obj.text_section]
    ELSE IF BoundsCheckFails(reloc.offset, Len(obj.text_section)) THEN
        [result |-> "bounds", text |-> obj.text_section]
    ELSE IF ~SiteInside(reloc.offset, Len(obj.text_section)) THEN
        [result |-> "outside", text |-> obj.text_section]
    ELSE
        [result |-> "patched",
         text |-> WriteWord(obj.text_section, reloc.offset.lo,
                            PatchValue(reloc, obj.text_base_addr,
                                       table[reloc.symbol_name],
                                       ReadWord(obj.text_section, reloc.offset.lo)))]

NoReloc == << 0, 0 >>

\* The first relocation of object i or a later one.
RECURSIVE FirstReloc(_, _)
FirstReloc(objs, i) ==
    IF i > Len(objs) THEN NoReloc
    ELSE IF Len(objs[i].relocs) > 0 THEN << i, 1 >>
    ELSE FirstReloc(objs, i + 1)

\* The relocation the loops reach after relocation c.
NextReloc(objs, c) ==
    IF c[2] < Len(objs[c[1]].relocs) THEN << c[1], c[2] + 1 >>
    ELSE FirstReloc(objs, c[1] + 1)

----------------------------------------------------------------------------
(* write_output *)

RECURSIVE TextSections(_, _)
TextSections(objs, i) ==
    IF i > Len(objs) THEN << >>
    ELSE objs[i].text_section \o TextSections(objs, i + 1)

RECURSIVE DataSections(_, _)
DataSections(objs, i) ==
    IF i > Len(objs) THEN << >>
    ELSE objs[i].data_section \o DataSections(objs, i + 1)

OutputImage(objs) == TextSections(objs, 1) \o DataSections(objs, 1)

----------------------------------------------------------------------------
(* link_objects *)

\* AfterPass with the pass's result ignored.
AfterPassUnchecked(ok, next) == next

\* Each pass's result decides whether the next pass runs.
AfterPass(ok, next) == IF ok THEN next ELSE "failed"

----------------------------------------------------------------------------
(* Input files. *)

Exported(name, section, offset) ==
    SymbolEntry(name, SYMBOL_DEFINED, section, W(offset))
Imported(name) == SymbolEntry(name, SYMBOL_UNDEFINED, SECTION_TEXT, W(0))

\* The lists of one to MaxFiles files of S.
FileLists(S) == UNION {[1..n -> S] : n \in 1..MaxFiles}

\* Modules of a reference graph: what a module exports and which names its
\* relocations refer to; relocation k patches word k of the code.
GraphSymbols ==
    { << Exported(ENTRY_SYMBOL, SECTION_TEXT, 0) >>,
      << Imported("g"), Exported("f", SECTION_TEXT, 0) >>,
      << Exported("g", SECTION_DATA, 0) >>,
      << Exported("f", SECTION_TEXT, 0), Exported("g", SECTION_DATA, 1) >> }

GraphRelocNames == { << >>, << "f" >>, << "g" >>, << "f", "g" >> }

GraphRelocs(names) ==
    [k \in 1..Len(names) |->
        RelocEntry(W(4 * (k - 1)), names[k], RELOC_ABSOLUTE)]

GraphFiles ==
    { ObjectFile(Repeat(0, 4 * (Len(r) + 1)), Repeat(1, Len(s)), s, GraphRelocs(r)) :
        s \in GraphSymbols, r \in GraphRelocNames }

\* A program whose relocations patch its own code, linked before or after
\* the library that defines f (code) and g (data).  Patch sites are drawn
\* word-aligned, as the pointer cast of the patch requires; the last offset
\* is 0xFFFFFFFC.
PatchOffsets == { W(0), W(4), [hi |-> 65535, lo |-> 65532] }

PatchRelocs ==
    { RelocEntry(o, n, t) :
        o \in PatchOffsets, n \in {"f", "g"}, t \in {RELOC_ABSOLUTE, RELOC_RELATIVE} }

RelocTables == UNION {[1..n -> PatchRelocs] : n \in 0..MaxRelocs}

Programs ==
    { ObjectFile(Repeat(fill, size), << >>,
                 << Exported(ENTRY_SYMBOL, SECTION_TEXT, 0) >>, relocs) :
        fill \in {0, 171}, size \in {4, 8}, relocs \in RelocTables }

Library ==
    ObjectFile(Repeat(0, 8), << 221 >>,
               << Exported("f", SECTION_TEXT, 4), Exported("g", SECTION_DATA, 0) >>,
               << >>)

PatchInputs == UNION {{ << p, Library >>, << Library, p >> } : p \in Programs}

\* Files that cannot be opened, carry another magic, or end early.
Caller ==
    ObjectFile(Repeat(0, 4), << 1 >>,
               << Exported(ENTRY_SYMBOL, SECTION_TEXT, 0) >>,
               << RelocEntry(W(0), "f", RELOC_ABSOLUTE) >>)

Callee ==
    ObjectFile(Repeat(0, 4), << >>,
               << Exported("f", SECTION_TEXT, 0), Exported("g", SECTION_TEXT, 0) >>,
               << >>)

Damaged(f) ==
    { f, [f EXCEPT !.openable = FALSE], [f EXCEPT !.magic = 0],
      Truncate(f, "text", 2) }
    \cup { Truncate(f, "data", k) : k \in 0..(Len(f.data) - 1) }
    \cup { Truncate(f, "symbols", k) : k \in 0..(Len(f.symbols) - 1) }
    \cup { Truncate(f, "relocs", k) : k \in 0..(Len(f.relocs) - 1) }

DamagedFiles == Damaged(Caller) \cup Damaged(Callee)

InputLists == FileLists(GraphFiles) \cup PatchInputs \cup FileLists(DamagedFiles)

----------------------------------------------------------------------------
(* The state of one run of link_objects. *)

VARIABLES
    files,                \* input_files: what each path holds
    pc,                   \* where link_objects is
    next_file,            \* the file the load loop is at
    objects,              \* std::vector<LoadedObject> objects
    needed_symbols,       \* std::set<std::string> needed_symbols
    object_active,        \* std::vector<bool> object_active
    changed,              \* bool changed
    iterations,           \* how many times the while loop's body has run
    global_symbol_table,  \* std::map<std::string, uint32_t>
    total_text_size,
    total_data_size,
    cursor,               \* the relocation apply_relocations is at
    output,               \* the output file
    error,                \* the error reported on std::cerr
    error_symbol,         \* the symbol the error names
    outside_access        \* a patch site outside the code buffer was accessed

vars == << files, pc, next_file, objects, needed_symbols, object_active, changed,
           iterations, global_symbol_table, total_text_size, total_data_size,
           cursor, output, error, error_symbol, outside_access >>

NoOutput == [opened |-> FALSE, bytes |-> << >>]

Init ==
    /\ files \in InputLists
    /\ pc = "load"
    /\ next_file = 1
    /\ objects = << >>
    /\ needed_symbols = {}
    /\ object_active = << >>
    /\ changed = FALSE
    /\ iterations = 0
    /\ global_symbol_table = EmptyTable
    /\ total_text_size = W(0)
    /\ total_data_size = W(0)
    /\ cursor = NoReloc
    /\ output = NoOutput
    /\ error = "None"
    /\ error_symbol = ""
    /\ outside_access = FALSE

\* Pass 0, one turn of the loop: load the next file, or return false.
LoadObjectFile ==
    /\ pc = "load"
    /\ next_file <= Len(files)
    /\ LET r == load_object_file(next_file, files[next_file]) IN
        /\ objects' = IF r.ok THEN Append(objects, r.obj) ELSE objects
        /\ next_file' = IF r.ok THEN next_file + 1 ELSE next_file
        /\ error' = r.error
        /\ pc' = AfterPass(r.ok, "load")
    /\ UNCHANGED << files, needed_symbols, object_active, changed, iterations,
                    global_symbol_table, total_text_size, total_data_size,
                    cursor, output, error_symbol, outside_access >>

\* layout_and_define_symbols is entered: its locals are constructed.
StartResolution ==
    /\ pc = "load"
    /\ next_file > Len(files)
    /\ pc' = "resolve"
    /\ needed_symbols' = {ENTRY_SYMBOL}
    /\ object_active' = [i \in 1..Len(objects) |-> FALSE]
    /\ changed' = TRUE
    /\ UNCHANGED << files, next_file, objects, iterations, global_symbol_table,
                    total_text_size, total_data_size, cursor, output, error,
                    error_symbol, outside_access >>

\* One turn of the while (changed) loop: pass 1, then pass 2.
ResolveIteration ==
    /\ pc = "resolve"
    /\ changed
    /\ iterations < MaxIter
    /\ LET active == ActivatePass(objects, needed_symbols, object_active) IN
        /\ object_active' = active
        /\ needed_symbols' = DemandPass(objects, needed_symbols, active)
        /\ changed' = (ActivateChanged(objects, needed_symbols, object_active)
                       \/ DemandChanged(objects, needed_symbols, active))
    /\ iterations' = iterations + 1
    /\ UNCHANGED << files, pc, next_file, objects, global_symbol_table,
                    total_text_size, total_data_size, cursor, output, error,
                    error_symbol, outside_access >>

\* The loop has ended: filter, layout, symbol definition and the check that
\* every needed symbol is defined.
LayoutAndDefine ==
    /\ pc = "resolve"
    /\ ~changed
    /\ LET live == AssignBases(FilterActive(objects, object_active, 1))
           def == DefineSymbols(live, needed_symbols, 1, 1, EmptyTable)
           missing == MissingSymbols(needed_symbols, def.table)
           first == FirstReloc(live, 1)
       IN
        /\ objects' = live
        /\ total_text_size' = TotalTextSize(live, Len(live))
        /\ total_data_size' = TotalDataSize(live, Len(live))
        /\ global_symbol_table' = def.table
        /\ error' = IF ~def.ok THEN "DuplicateSymbol"
                    ELSE IF missing # {} THEN "UndefinedSymbol"
                    ELSE error
        /\ error_symbol' = IF ~def.ok THEN def.symbol
                           ELSE IF missing # {} THEN FirstName(missing)
                           ELSE error_symbol
        /\ cursor' = first
        /\ pc' = AfterPass(def.ok /\ missing = {},
                           IF first = NoReloc THEN "write" ELSE "relocate")
    /\ UNCHANGED << files, next_file, needed_symbols, object_active, changed,
                    iterations, output, outside_access >>

\* Pass 2, one turn of the inner loop.  An access outside the buffer either
\* ends the process or goes unnoticed.
ApplyRelocation ==
    /\ pc = "relocate"
    /\ LET obj == objects[cursor[1]]
           reloc == obj.relocs[cursor[2]]
           r == ApplyOne(obj, reloc, global_symbol_table)
           next == NextReloc(objects, cursor)
       IN \E survives \in BOOLEAN :
        /\ objects' = [objects EXCEPT ![cursor[1]].text_section = r.text]
        /\ outside_access' = (outside_access \/ r.result = "outside")
        /\ error' = IF r.result = "undefined" THEN "UndefinedSymbol"
                    ELSE IF r.result = "bounds" THEN "RelocationOutOfBounds"
                    ELSE error
        /\ error_symbol' = IF r.result = "undefined" THEN reloc.symbol_name
                           ELSE error_symbol
        /\ IF r.result = "patched" \/ (r.result = "outside" /\ survives)
           THEN /\ cursor' = next
                /\ pc' = AfterPass(TRUE, IF next = NoReloc THEN "write" ELSE "relocate")
           ELSE IF r.result = "outside"
           THEN /\ cursor' = cursor
                /\ pc' = "crashed"
           ELSE /\ cursor' = cursor
                /\ pc' = AfterPass(FALSE, IF next = NoReloc THEN "write" ELSE "relocate")
    /\ UNCHANGED << files, next_file, needed_symbols, object_active, changed,
                    iterations, global_symbol_table, total_text_size,
                    total_data_size, output >>

\* Pass 3: the output file is opened, or cannot be, and written.
WriteOutput ==
    /\ pc = "write"
    /\ \E opens \in BOOLEAN :
        /\ output' = IF opens
                     THEN [opened |-> TRUE, bytes |-> OutputImage(objects)]
                     ELSE output
        /\ error' = IF opens THEN error ELSE "OutputWriteError"
        /\ pc' = AfterPass(opens, "done")
    /\ UNCHANGED << files, next_file, objects, needed_symbols, object_active,
                    changed, iterations, global_symbol_table, total_text_size,
                    total_data_size, cursor, error_symbol, outside_access >>

Next ==
    \/ LoadObjectFile
    \/ StartResolution
    \/ ResolveIteration
    \/ LayoutAndDefine
    \/ ApplyRelocation
    \/ WriteOutput

Spec == Init /\ [][Next]_vars

----------------------------------------------------------------------------
(* What the properties below speak of. *)

\* Every input file has been loaded.
AllLoaded == next_file > Len(files)

\* The resolution loop has ended and the layout pass has run.
Resolved == AllLoaded /\ pc \notin {"load", "resolve"}

\* The module loaded from input file i.
Loaded(i) == load_object_file(i, files[i]).obj

\* The names a module exports.
ExportedNames(obj) ==
    {obj.symbols[k].name :
        k \in {j \in 1..Len(obj.symbols) : obj.symbols[j].type = SYMBOL_DEFINED}}

\* The input files the live modules come from.
LiveFiles == {objects[k].filename : k \in 1..Len(objects)}

\* The modules one step from the set R of modules: those that export the
\* entry symbol or a name a relocation of a module of R refers to.
ReachedFrom(R) ==
    LET names == {ENTRY_SYMBOL} \cup UNION {RelocNames(Loaded(j)) : j \in R}
    IN  {i \in 1..Len(files) : ExportedNames(Loaded(i)) \cap names # {}}

RECURSIVE ReachClosure(_, _)
ReachClosure(R, n) == IF n = 0 THEN R ELSE ReachClosure(R \cup ReachedFrom(R), n - 1)

\* The modules reachable from the entry symbol.
Reachable == ReachClosure({}, Len(files))

RECURSIVE BytesOf(_, _)
BytesOf(R, i) ==
    IF i > Len(files) THEN 0
    ELSE (IF i \in R THEN files[i].text_size + files[i].data_size ELSE 0)
         + BytesOf(R, i + 1)

----------------------------------------------------------------------------
\* C1: when the resolution loop has finished, the modules kept as live are
\* exactly the modules reachable from __START__ through relocation name ->
\* exporting module edges, and the output holds the bytes of those modules
\* only.
C1_LiveSetIsReachableSet ==
    AllLoaded /\ pc # "load" =>
        LET R == Reachable IN
        /\ (pc = "resolve" /\ ~changed) =>
               {i \in 1..Len(objects) : object_active[i]} = R
        /\ Resolved => LiveFiles = R
        /\ output.opened => Len(output.bytes) = BytesOf(R, 1)

\* A link of three modules that succeeds with one module dropped and one
\* reached only through a relocation.
C1_Witness ==
    /\ pc = "done" /\ output.opened
    /\ Len(files) = 3
    /\ Cardinality(LiveFiles) = 2
    /\ \E k \in 1..Len(objects) : ENTRY_SYMBOL \notin ExportedNames(objects[k])

\* C10: the resolution loop terminates: needed_symbols and the active set
\* only grow, an iteration that sets changed has enlarged one of them, and
\* the loop body runs at most (modules + distinct relocation names + 1) times.
C10_ResolutionLoopTerminates ==
    [][(pc = "resolve" /\ pc' = "resolve") =>
        /\ needed_symbols \subseteq needed_symbols'
        /\ \A i \in 1..Len(objects) : object_active[i] => object_active'[i]
        /\ changed' => (needed_symbols' # needed_symbols
                        \/ object_active' # object_active)
        /\ iterations' <= Len(objects)
                          + Cardinality(UNION {RelocNames(objects[i]) :
                                                  i \in 1..Len(objects)})
                          + 1
        /\ iterations' < MaxIter]_vars

\* The loop has ended after four iterations.
C10_Witness == pc = "resolve" /\ ~changed /\ iterations = 4

----------------------------------------------------------------------------
\* The places where live modules define the name n, in definition order.
DefinitionSites(n) ==
    UNION {{<< k, j >> : j \in {i \in 1..Len(objects[k].symbols) :
                                   /\ objects[k].symbols[i].type = SYMBOL_DEFINED
                                   /\ objects[k].symbols[i].name = n}} :
           k \in 1..Len(objects)}

Before(a, b) == a[1] < b[1] \/ (a[1] = b[1] /\ a[2] < b[2])

\* The address of the definition at site s.
SiteAddress(s) ==
    LET obj == objects[s[1]]
        sym == obj.symbols[s[2]]
    IN  IF sym.section = SECTION_TEXT
        THEN ValueOf(obj.text_base_addr) + ValueOf(sym.offset)
        ELSE ValueOf(obj.data_base_addr) + ValueOf(sym.offset)

\* Two loaded modules export the same needed name.
NeededNameExportedTwice ==
    \E i, j \in 1..Len(files) :
        /\ i # j
        /\ ExportedNames(Loaded(i)) \cap ExportedNames(Loaded(j))
               \cap needed_symbols # {}

\* C5: two loaded modules that export the same needed name make the link
\* fail with DuplicateSymbol, and no entry of the global symbol table is
\* overwritten: each name keeps the address of its first definition.
C5_DuplicateNeededSymbolFails ==
    Resolved =>
        /\ NeededNameExportedTwice => (pc = "failed" /\ error = "DuplicateSymbol")
        /\ \A n \in DOMAIN global_symbol_table :
              \E s \in DefinitionSites(n) :
                  /\ \A t \in DefinitionSites(n) : t = s \/ Before(s, t)
                  /\ ValueOf(global_symbol_table[n]) = SiteAddress(s)
        /\ error = "None" =>
              \A n \in DOMAIN global_symbol_table :
                  Cardinality(DefinitionSites(n)) = 1

\* The link has failed on a name two different input files export.
C5_Witness ==
    /\ Resolved /\ pc = "failed" /\ error = "DuplicateSymbol"
    /\ NeededNameExportedTwice
    /\ error_symbol # ENTRY_SYMBOL

\* The needed names no live module exports.
UndefinedNames ==
    needed_symbols \ UNION {ExportedNames(objects[k]) : k \in 1..Len(objects)}

\* A needed name has two definitions among the live modules.
DuplicateAmongLive ==
    \E n \in needed_symbols : Cardinality(DefinitionSites(n)) >= 2

NoModuleExportsEntry ==
    \A i \in 1..Len(files) : ENTRY_SYMBOL \notin ExportedNames(Loaded(i))

\* C6, as claimed: a needed name without an Exported definition in a live
\* module makes the link fail with UndefinedSymbol naming a missing symbol,
\* without output; and with no module exporting __START__ no module is
\* activated and the error names __START__.
C6_UndefinedNeededSymbolFails ==
    Resolved =>
        /\ UndefinedNames # {} =>
              /\ pc = "failed" /\ error = "UndefinedSymbol"
              /\ error_symbol \in UndefinedNames
              /\ ~output.opened
        /\ NoModuleExportsEntry =>
              /\ objects = << >>
              /\ pc = "failed" /\ error = "UndefinedSymbol"
              /\ error_symbol = ENTRY_SYMBOL

\* C6, amended: such a link fails without output, with DuplicateSymbol when
\* a needed name has two definitions among the live modules (the definition
\* loop stops there, before the final check) and with UndefinedSymbol naming
\* a missing symbol otherwise; the case of no module exporting __START__ is
\* as claimed.
C6_UndefinedOrDuplicateFails ==
    Resolved =>
        /\ UndefinedNames # {} =>
              /\ pc = "failed" /\ ~output.opened
              /\ IF DuplicateAmongLive
                 THEN error = "DuplicateSymbol"
                 ELSE error = "UndefinedSymbol" /\ error_symbol \in UndefinedNames
        /\ NoModuleExportsEntry =>
              /\ objects = << >>
              /\ pc = "failed" /\ error = "UndefinedSymbol"
              /\ error_symbol = ENTRY_SYMBOL

\* The link has failed on a missing name other than the entry symbol, with
\* live modules.
C6_Witness ==
    /\ Resolved /\ pc = "failed" /\ error = "UndefinedSymbol"
    /\ error_symbol \in UndefinedNames \ {ENTRY_SYMBOL}
    /\ Len(objects) >= 2
    /\ ~DuplicateAmongLive

\* C4: the output file is opened only after loading, resolution, binding
\* and patching have all succeeded; a run that has failed has no output.
C4_OutputOnlyAfterAllPasses ==
    /\ output.opened =>
          /\ AllLoaded /\ pc = "done" /\ error = "None"
          /\ ~changed
          /\ needed_symbols \subseteq DOMAIN global_symbol_table
          /\ cursor = NoReloc
    /\ (pc = "failed" \/ error # "None") => output = NoOutput

\* The run has failed in the patching pass, after a patch was applied, with
\* no output.
C4_Witness ==
    /\ pc = "failed" /\ error = "RelocationOutOfBounds"
    /\ cursor # FirstReloc(objects, 1)
    /\ output = NoOutput

----------------------------------------------------------------------------
\* The binding pass has succeeded.
Bound == Resolved /\ ~(pc = "failed" /\ error \in {"DuplicateSymbol", "UndefinedSymbol"})

\* The code and data sizes of the live modules before module k.
RECURSIVE CodeBefore(_)
CodeBefore(k) ==
    IF k = 1 THEN 0 ELSE CodeBefore(k - 1) + files[objects[k - 1].filename].text_size

RECURSIVE DataBefore(_)
DataBefore(k) ==
    IF k = 1 THEN 0 ELSE DataBefore(k - 1) + files[objects[k - 1].filename].data_size

\* Bytes n+1 .. n+len of the output.
OutputAt(n, len) == SubSeq(output.bytes, n + 1, n + len)

\* C9: the live modules keep the order of their input files; code_base is
\* the sum of the code sizes of the live modules before, data_base the total
\* code size plus the sum of the data sizes of the live modules before; and
\* the output holds each live module's code at code_base and its data at
\* data_base.
C9_LayoutInLoadOrder ==
    Bound =>
        /\ \A k, l \in 1..Len(objects) :
              k < l => objects[k].filename < objects[l].filename
        /\ \A k \in 1..Len(objects) :
              /\ ValueOf(objects[k].text_base_addr) = CodeBefore(k)
              /\ ValueOf(objects[k].data_base_addr) =
                     CodeBefore(Len(objects) + 1) + DataBefore(k)
        /\ output.opened =>
              /\ Len(output.bytes) =
                     CodeBefore(Len(objects) + 1) + DataBefore(Len(objects) + 1)
              /\ \A k \in 1..Len(objects) :
                    /\ OutputAt(ValueOf(objects[k].text_base_addr),
                                Len(objects[k].text_section))
                           = objects[k].text_section
                    /\ OutputAt(ValueOf(objects[k].data_base_addr),
                                Len(objects[k].data_section))
                           = objects[k].data_section

\* An image of two live modules with data, written with a module dropped
\* between them.
C9_Witness ==
    /\ pc = "done" /\ output.opened
    /\ Len(objects) = 2 /\ Len(files) = 3
    /\ objects[1].filename = 1 /\ objects[2].filename = 3
    /\ objects[1].data_section # << >> /\ objects[2].data_section # << >>

----------------------------------------------------------------------------
\* Relocation q of live module k.
RelocAt(k, q) == objects[k].relocs[q]

\* Its site is part of the module's code.
Inside(k, q) == SiteInside(RelocAt(k, q).offset, Len(objects[k].text_section))

\* The sites of two relocations inside the code share a byte.
Overlap(a, b) == a.offset.lo - b.offset.lo < 4 /\ b.offset.lo - a.offset.lo < 4

\* A relocation after q of the same module patches a byte of q's site.
PatchedAgain(k, q) ==
    \E r \in (q + 1)..Len(objects[k].relocs) :
        Inside(k, r) /\ Overlap(RelocAt(k, q), RelocAt(k, r))

\* The word of the output at the site of relocation q of module k.
OutputWord(k, q) ==
    ReadWord(output.bytes,
             ValueOf(objects[k].text_base_addr) + RelocAt(k, q).offset.lo)

\* C7, as claimed, for the sites inside the code: after a successful link the
\* word at the site of every Absolute relocation is the address of its symbol,
\* whatever the list of relocations of the module.
C7_AbsolutePatchEqualsAddress ==
    (pc = "done" /\ output.opened) =>
        \A k \in 1..Len(objects) : \A q \in 1..Len(objects[k].relocs) :
            (RelocAt(k, q).type = RELOC_ABSOLUTE /\ Inside(k, q)) =>
                OutputWord(k, q) = global_symbol_table[RelocAt(k, q).symbol_name]

\* C7, amended: after a successful link the word at the site of every
\* Absolute relocation whose site no later relocation of the same module
\* patches is the address of its symbol.
C7_AbsolutePatchUnlessPatchedAgain ==
    (pc = "done" /\ output.opened) =>
        \A k \in 1..Len(objects) : \A q \in 1..Len(objects[k].relocs) :
            (RelocAt(k, q).type = RELOC_ABSOLUTE /\ Inside(k, q)
             /\ ~PatchedAgain(k, q)) =>
                OutputWord(k, q) = global_symbol_table[RelocAt(k, q).symbol_name]

\* An image with two Absolute relocations of one module at different sites,
\* over code that was not zero, the first to an address that is not zero.
C7_Witness ==
    /\ pc = "done" /\ output.opened
    /\ \E k \in 1..Len(objects) :
          /\ Len(objects[k].relocs) = 2
          /\ \A q \in 1..2 : RelocAt(k, q).type = RELOC_ABSOLUTE /\ Inside(k, q)
          /\ ~PatchedAgain(k, 1)
          /\ files[objects[k].filename].text[1] # 0
          /\ ValueOf(global_symbol_table[RelocAt(k, 1).symbol_name]) > 0

----------------------------------------------------------------------------
\* The low 26 bits and the top 6 bits of a word, as numbers.
Low26(w) == (w.hi % 1024) * Half + w.lo
Top6(w) == w.hi \div 1024

----------------------------------------------------------------------------
\* Relocation q of live module k has passed the bounds check.
Applied(k, q) ==
    /\ Bound
    /\ cursor = NoReloc \/ Before(<< k, q >>, cursor)

\* C2, as claimed: a relocation whose patch_offset + 4, as an unbounded sum,
\* exceeds the code length makes the run fail with RelocationOutOfBounds; it
\* is never applied, and no byte outside the code buffer is accessed.
C2_OutOfBoundsRelocationRejected ==
    /\ ~outside_access
    /\ \A k \in 1..Len(objects) : \A q \in 1..Len(objects[k].relocs) :
          Applied(k, q) => Inside(k, q)

\* C3, as claimed: a file with a valid magic that ends before the records
\* its header counts is never accepted as a loaded module: the run fails
\* with TruncatedFile.
C3_TruncatedFileRejected ==
    \A i \in 1..Len(files) :
        (i < next_file /\ IsTruncated(files[i])) =>
            (pc = "failed" /\ error = "TruncatedFile")

====
